---- MODULE Spec2Model ----
(***************************************************************************)
(* The Airplane class of python_files/class_airplane.py and distance_geo   *)
(* of python_files/distance_airports.py as a state machine.                *)
(*                                                                         *)
(* A DataFrame is a record [columns, rows]: columns is the sequence of     *)
(* column names, rows the sequence of rows in index order, and a row is a  *)
(* function from the column names to the cell values.                      *)
(***************************************************************************)
EXTENDS Integers, Sequences, FiniteSets, TLC

(***************************************************************************)
(* Bounds of the loaded data.                                              *)
(***************************************************************************)
MaxAirports == 2
MaxRoutes == 2

(***************************************************************************)
(* Cell values.  NaN is the missing value of a text column, NaNNum the     *)
(* missing value of a numeric column (a float nan).                        *)
(***************************************************************************)
NaN == "NaN"
NaNNum == 999

NumericColumns ==
    {"index", "Latitude", "Longitude", "latitude_source", "longitude_source",
     "latitude_destination", "longitude_destination", "distance"}

NullOf(c) == IF c \in NumericColumns THEN NaNNum ELSE NaN

(***************************************************************************)
(* The four csv files as download_data loads them.  The first column of    *)
(* each file is the row number written by the upstream export.             *)
(***************************************************************************)
AirlinesColumns == <<"index", "Name">>
AirplanesColumns == <<"index", "Name", "IATA code", "ICAO code">>
AirportsColumns ==
    <<"index", "Name", "Country", "IATA", "Latitude", "Longitude", "Altitude",
      "Timezone", "DST", "Tz database time zone", "Type", "Source">>
RoutesColumns ==
    <<"index", "Airline", "Source airport", "Destination airport",
      "Codeshare", "Equipment">>

\* <<IATA, Country, Latitude, Longitude>> of the airports a file may hold.
\* BRQ carries a latitude outside [-90, 90]; LCJ has no country.
AirportPool ==
    { <<"KRK", "Poland", 50, 19>>,
      <<"WAW", "Poland", 52, 21>>,
      <<"PRG", "Czech Republic", 50, 14>>,
      <<"BRQ", "Czech Republic", 95, 16>>,
      <<"LCJ", NaN, 51, 19>> }

\* <<Source airport, Destination airport, Equipment>> of the routes a file
\* may hold.  ZZZ is the code of no airport.
RoutePool ==
    { <<"KRK", "WAW", "320">>,
      <<"WAW", "KRK", "738">>,
      <<"WAW", "PRG", "320">>,
      <<"PRG", "WAW", "320">>,
      <<"PRG", "BRQ", "AT7">>,
      <<"LCJ", "KRK", "AT7">>,
      <<"KRK", "ZZZ", "320">>,
      <<"ZZZ", "KRK", "320">> }

AirportRow(i, a) ==
    ("index" :> i) @@ ("Name" :> a[1]) @@ ("Country" :> a[2]) @@
    ("IATA" :> a[1]) @@ ("Latitude" :> a[3]) @@ ("Longitude" :> a[4]) @@
    ("Altitude" :> "-") @@ ("Timezone" :> "-") @@ ("DST" :> "-") @@
    ("Tz database time zone" :> "-") @@ ("Type" :> "airport") @@
    ("Source" :> "OurAirports")

RouteRow(i, r) ==
    ("index" :> i) @@ ("Airline" :> "LO") @@ ("Source airport" :> r[1]) @@
    ("Destination airport" :> r[2]) @@ ("Codeshare" :> NaN) @@
    ("Equipment" :> r[3])

AirlineRow == ("index" :> 0) @@ ("Name" :> "LOT")
AirplaneRow ==
    ("index" :> 0) @@ ("Name" :> "Airbus A320") @@ ("IATA code" :> "320") @@
    ("ICAO code" :> "A320")

SeqsUpTo(S, n) == UNION { [1..k -> S] : k \in 0..n }

(***************************************************************************)
(* pandas operations used by the class.                                    *)
(***************************************************************************)
EmptyFrame == [columns |-> <<>>, rows |-> <<>>]

ColSet(df) == { df.columns[i] : i \in DOMAIN df.columns }

\* Faulty variant of DropRaises: df.drop(cols, axis=1, errors="ignore").
DropRaisesNever(df, cols) == FALSE

\* df.drop(cols, axis=1); raises KeyError unless every name is a column.
DropRaises(df, cols) == ~(cols \subseteq ColSet(df))

Drop(df, cols) ==
    [columns |-> SelectSeq(df.columns, LAMBDA c : c \notin cols),
     rows |-> [i \in 1..Len(df.rows) |->
                 [c \in (DOMAIN df.rows[i]) \ cols |-> df.rows[i][c]]]]

\* df.rename(columns=m); names that are no column are ignored.
Renamed(m, c) == IF c \in DOMAIN m THEN m[c] ELSE c

Rename(df, m) ==
    [columns |-> [i \in 1..Len(df.columns) |-> Renamed(m, df.columns[i])],
     rows |-> [i \in 1..Len(df.rows) |->
                 [c \in { Renamed(m, k) : k \in DOMAIN df.rows[i] } |->
                    df.rows[i][CHOOSE k \in DOMAIN df.rows[i] :
                                  Renamed(m, k) = c]]]]

\* df[cols]
Project(df, cols) ==
    [columns |-> cols,
     rows |-> [i \in 1..Len(df.rows) |->
                 [c \in { cols[j] : j \in DOMAIN cols } |-> df.rows[i][c]]]]

\* Faulty variant of DropNa: no row is removed.
DropNaNone(df, cols) == df

\* Faulty variant of DropNa: dropna(how="all"), which drops a row only when
\* every one of the columns is missing.
DropNaHowAll(df, cols) ==
    [columns |-> df.columns,
     rows |-> SelectSeq(df.rows, LAMBDA r : \E c \in cols : r[c] # NullOf(c))]

\* df.dropna(subset=cols): keeps, in order, the rows with no missing value
\* in any of the columns cols.
DropNa(df, cols) ==
    [columns |-> df.columns,
     rows |-> SelectSeq(df.rows, LAMBDA r : \A c \in cols : r[c] # NullOf(c))]

RECURSIVE Flatten(_)
Flatten(ss) == IF ss = <<>> THEN <<>> ELSE Head(ss) \o Flatten(Tail(ss))

\* Faulty variant of Merge: the keys are not compared, every left row is
\* joined with every right row.
MergeKeyIgnored(left, right, left_on, right_on) ==
    LET overlap == ColSet(left) \cap ColSet(right)
        LName(c) == IF c \in overlap THEN c \o "_x" ELSE c
        RName(c) == IF c \in overlap THEN c \o "_y" ELSE c
        missing == [c \in ColSet(right) |-> NullOf(c)]
        JoinRow(l, r) ==
            [c \in { LName(k) : k \in ColSet(left) } \cup
                   { RName(k) : k \in ColSet(right) } |->
                IF \E k \in ColSet(left) : LName(k) = c
                THEN l[CHOOSE k \in ColSet(left) : LName(k) = c]
                ELSE r[CHOOSE k \in ColSet(right) : RName(k) = c]]
        RowsFor(l) ==
            IF right.rows = <<>>
            THEN << JoinRow(l, missing) >>
            ELSE [j \in 1..Len(right.rows) |-> JoinRow(l, right.rows[j])]
    IN  [columns |-> [i \in 1..Len(left.columns) |-> LName(left.columns[i])] \o
                     [i \in 1..Len(right.columns) |-> RName(right.columns[i])],
         rows |-> Flatten([i \in 1..Len(left.rows) |-> RowsFor(left.rows[i])])]

\* pd.merge(left, right, left_on=, right_on=, how="left"): one output row
\* per (left row, matching right row) in left order, then right order; a
\* left row without a match is kept once with the right columns missing.
\* Missing keys match missing keys.  A column name present on both sides
\* gets the suffixes _x and _y.
Merge(left, right, left_on, right_on) ==
    LET overlap == ColSet(left) \cap ColSet(right)
        LName(c) == IF c \in overlap THEN c \o "_x" ELSE c
        RName(c) == IF c \in overlap THEN c \o "_y" ELSE c
        missing == [c \in ColSet(right) |-> NullOf(c)]
        JoinRow(l, r) ==
            [c \in { LName(k) : k \in ColSet(left) } \cup
                   { RName(k) : k \in ColSet(right) } |->
                IF \E k \in ColSet(left) : LName(k) = c
                THEN l[CHOOSE k \in ColSet(left) : LName(k) = c]
                ELSE r[CHOOSE k \in ColSet(right) : RName(k) = c]]
        Matches(l) == SelectSeq(right.rows, LAMBDA r : r[right_on] = l[left_on])
        RowsFor(l) ==
            IF Matches(l) = <<>>
            THEN << JoinRow(l, missing) >>
            ELSE [j \in 1..Len(Matches(l)) |-> JoinRow(l, Matches(l)[j])]
    IN  [columns |-> [i \in 1..Len(left.columns) |-> LName(left.columns[i])] \o
                     [i \in 1..Len(right.columns) |-> RName(right.columns[i])],
         rows |-> Flatten([i \in 1..Len(left.rows) |-> RowsFor(left.rows[i])])]

(***************************************************************************)
(* distance_airports.distance_geo.  geopy's geodesic is computed here on   *)
(* whole-degree coordinates with a planar metric in whole kilometres       *)
(* (111 km per degree of latitude, 70 km per degree of longitude); like    *)
(* geopy it raises ValueError for a latitude outside [-90, 90] or a        *)
(* coordinate that is not a finite number, and wraps the longitude.        *)
(***************************************************************************)
Abs(n) == IF n < 0 THEN -n ELSE n

\* geodesic((lat1, lon1), (lat2, lon2)).km, or the exception it raises.
geodesic(lat1, lon1, lat2, lon2) ==
    IF \/ NaNNum \in {lat1, lon1, lat2, lon2}
       \/ Abs(lat1) > 90
       \/ Abs(lat2) > 90
    THEN [raised |-> TRUE, km |-> NaNNum]
    ELSE LET Wrap(lon) == ((lon + 180) % 360) - 180
             d == Abs(Wrap(lon1) - Wrap(lon2))
             dlon == IF d > 180 THEN 360 - d ELSE d
             a == 111 * Abs(lat1 - lat2)
             b == 70 * dlon
             lo == IF a > b THEN a ELSE b
         IN  [raised |-> FALSE,
              km |-> CHOOSE r \in lo..(a + b) :
                        /\ r * r <= a * a + b * b
                        /\ a * a + b * b < (r + 1) * (r + 1)]

\* Faulty variant of distance_geo_call: no except clause, the failure of
\* geodesic propagates.
distance_geo_call_no_except(latitude_source, longitude_source, latitude_destination, longitude_destination) ==
    LET try == geodesic(latitude_source, longitude_source,
                        latitude_destination, longitude_destination)
    IN  [raised |-> try.raised, geoval |-> try.km]

\* Faulty variant of distance_geo_call: the destination point is passed as
\* (longitude, latitude).
distance_geo_call_swapped(latitude_source, longitude_source, latitude_destination, longitude_destination) ==
    LET try == geodesic(latitude_source, longitude_source,
                        longitude_destination, latitude_destination)
    IN  IF try.raised
        THEN [raised |-> FALSE, geoval |-> 0]
        ELSE [raised |-> FALSE, geoval |-> try.km]

\* Faulty variant of distance_geo_call: the destination point is given the
\* latitude of the source.
distance_geo_call_source_latitude_twice(latitude_source, longitude_source, latitude_destination, longitude_destination) ==
    LET try == geodesic(latitude_source, longitude_source,
                        latitude_source, longitude_destination)
    IN  IF try.raised
        THEN [raised |-> FALSE, geoval |-> 0]
        ELSE [raised |-> FALSE, geoval |-> try.km]

\* A call of distance_geo: whether it raises, and the geoval it returns.
distance_geo_call(latitude_source, longitude_source, latitude_destination, longitude_destination) ==
    LET try == geodesic(latitude_source, longitude_source,
                        latitude_destination, longitude_destination)
    IN  IF try.raised
        THEN [raised |-> FALSE, geoval |-> 0]
        ELSE [raised |-> FALSE, geoval |-> try.km]

distance_geo(latitude_source, longitude_source, latitude_destination, longitude_destination) ==
    distance_geo_call(latitude_source, longitude_source,
                      latitude_destination, longitude_destination).geoval

(***************************************************************************)
(* Arguments of plot_flights_by_country tried by the model.  CutoffArgs    *)
(* holds the optional positional argument: <<>> when the caller gives no   *)
(* cutoff.  WorldNames are the country names of the naturalearth map.      *)
(***************************************************************************)
Countries == {"Poland", "Czech Republic"}
CutoffArgs == { <<>>, <<537>> }
WorldNames == {"Poland", "Czechia", "Germany"}

\* Lexicographic order of the airport codes, as sorted() compares them.
CodeOrder == <<"BRQ", "KRK", "LCJ", "PRG", "WAW", "ZZZ">>
Rank(code) == CHOOSE i \in DOMAIN CodeOrder : CodeOrder[i] = code

\* Faulty variant of round_trip_airports: the tuple is not sorted.
round_trip_unsorted(row) == << row["Source airport"], row["Destination airport"] >>

\* tuple(sorted([source, destination]))
round_trip_airports(row) ==
    IF Rank(row["Source airport"]) <= Rank(row["Destination airport"])
    THEN << row["Source airport"], row["Destination airport"] >>
    ELSE << row["Destination airport"], row["Source airport"] >>

\* def plot_flights_by_country(self, country, internal=False,
\*                             cutoff_distance=500)
CutoffParameter(given) ==
    IF given = <<>> THEN 500 ELSE given[1]

\* Faulty variant of NeedsDistance: the column is not looked for.
NeedsDistanceAlways(df) == TRUE

\* Faulty variant of NeedsDistance: the column is taken to be there.
NeedsDistanceNever(df) == FALSE

\* Faulty variant of IsShortHaul: a distance equal to the cutoff is long-haul.
IsShortHaulStrict(distance, cutoff) == distance < cutoff

\* if "distance" not in self.merge_df.columns
NeedsDistance(df) == "distance" \notin { df.columns[i] : i \in DOMAIN df.columns }

\* Faulty variant of IsShortHaul: a distance of 0 is taken for a missing
\* one and the route for a long-haul one.
IsShortHaulPositive(distance, cutoff) == 0 < distance /\ distance <= cutoff

\* Faulty variant of IsShortHaul: every route is short-haul.
IsShortHaulAlways(distance, cutoff) == TRUE

\* if distance <= cutoff_distance
IsShortHaul(distance, cutoff) == distance <= cutoff

\* x / 1000 of a non-negative whole number x, to the third decimal.
DivideBy1000(x) == [whole |-> x \div 1000, thousandths |-> x % 1000]

(***************************************************************************)
(* State of an Airplane instance, of the plot_flights_by_country call in   *)
(* progress (its arguments and locals), and what the last call produced.   *)
(* code_airport is the argument of the last plot_flights_by_code_airports. *)
(***************************************************************************)
VARIABLES airlines_df, airplanes_df, airports_df, routes_df, merge_df,
          pc, country, code_airport, internal, cutoff_arg, cutoff_distance,
          filtered_routes, row_i, no_double_routes, short_haul_count,
          total_short_haul_distance, drawn, emissions, geo_calls, outcome,
          call

frames == <<airlines_df, airplanes_df, airports_df, routes_df>>
args == <<country, code_airport, internal, cutoff_arg, cutoff_distance>>
locals == <<filtered_routes, row_i, no_double_routes, short_haul_count,
            total_short_haul_distance, drawn, emissions>>
vars == <<airlines_df, airplanes_df, airports_df, routes_df, merge_df,
          pc, country, code_airport, internal, cutoff_arg, cutoff_distance,
          filtered_routes, row_i, no_double_routes, short_haul_count,
          total_short_haul_distance, drawn, emissions, geo_calls, outcome,
          call>>

NoEmissions == [computed |-> FALSE]

\* call is the direct call of distance_geo, or of the emissions estimate,
\* that the specification of the pure functions makes.
NoCall == [fn |-> "none"]

\* The values the model gives the arguments and locals of
\* plot_flights_by_country while no call of it is on record: they describe
\* the most recent call, and only while no other method has run since.
NoArgs ==
    /\ country' = ""
    /\ code_airport' = ""
    /\ internal' = FALSE
    /\ cutoff_arg' = <<>>
    /\ cutoff_distance' = 500

NoLocals ==
    /\ filtered_routes' = <<>>
    /\ row_i' = 1
    /\ no_double_routes' = {}
    /\ short_haul_count' = 0
    /\ total_short_haul_distance' = 0
    /\ drawn' = <<>>
    /\ emissions' = NoEmissions

\* The instance after __init__ and the session's download_data.
Init ==
    /\ airlines_df = [columns |-> AirlinesColumns, rows |-> <<AirlineRow>>]
    /\ airplanes_df = [columns |-> AirplanesColumns, rows |-> <<AirplaneRow>>]
    /\ \E s \in SeqsUpTo(AirportPool, MaxAirports) :
          airports_df = [columns |-> AirportsColumns,
                         rows |-> [i \in 1..Len(s) |-> AirportRow(i - 1, s[i])]]
    /\ \E s \in SeqsUpTo(RoutePool, MaxRoutes) :
          routes_df = [columns |-> RoutesColumns,
                       rows |-> [i \in 1..Len(s) |-> RouteRow(i - 1, s[i])]]
    /\ merge_df = EmptyFrame
    /\ pc = "idle"
    /\ country = ""
    /\ code_airport = ""
    /\ internal = FALSE
    /\ cutoff_arg = <<>>
    /\ cutoff_distance = 500
    /\ filtered_routes = <<>>
    /\ row_i = 1
    /\ no_double_routes = {}
    /\ short_haul_count = 0
    /\ total_short_haul_distance = 0
    /\ drawn = <<>>
    /\ emissions = NoEmissions
    /\ geo_calls = 0
    /\ outcome = "none"
    /\ call = NoCall

\* Faulty variant of MergedTable: the second join looks the airport up by
\* the route's Source airport.
MergedTableDestinationBySource(airports, routes) ==
    LET merge_df_1 ==
            Rename(Merge(airports, routes, "IATA", "Source airport"),
                   ("Country" :> "Source country") @@
                   ("Latitude" :> "latitude_source") @@
                   ("Longitude" :> "longitude_source"))
        merged ==
            Rename(Merge(merge_df_1,
                         Project(airports,
                                 <<"IATA", "Country", "Latitude", "Longitude">>),
                         "Source airport", "IATA"),
                   ("IATA_x" :> "IATA") @@
                   ("Country" :> "Destination country") @@
                   ("Latitude" :> "latitude_destination") @@
                   ("Longitude" :> "longitude_destination"))
    IN  Drop(DropNa(merged, {"Source country", "Destination country"}),
             {"IATA_y", "DST", "Tz database time zone", "Airline", "Timezone",
              "Codeshare", "Altitude"})

\* The table merge_datasets builds from the cleaned airports and routes.
MergedTable(airports, routes) ==
    LET merge_df_1 ==
            Rename(Merge(airports, routes, "IATA", "Source airport"),
                   ("Country" :> "Source country") @@
                   ("Latitude" :> "latitude_source") @@
                   ("Longitude" :> "longitude_source"))
        merged ==
            Rename(Merge(merge_df_1,
                         Project(airports,
                                 <<"IATA", "Country", "Latitude", "Longitude">>),
                         "Destination airport", "IATA"),
                   ("IATA_x" :> "IATA") @@
                   ("Country" :> "Destination country") @@
                   ("Latitude" :> "latitude_destination") @@
                   ("Longitude" :> "longitude_destination"))
    IN  Drop(DropNa(merged, {"Source country", "Destination country"}),
             {"IATA_y", "DST", "Tz database time zone", "Airline", "Timezone",
              "Codeshare", "Altitude"})

\* Faulty variant of DropFirstColumn: the last column is removed.
DropLastColumn(df) == Drop(df, {df.columns[Len(df.columns)]})

\* df.drop(df.columns[0], axis=1).reset_index(drop=True)
DropFirstColumn(df) == Drop(df, {df.columns[1]})

\* merge_datasets().  A call on frames that were cleaned before raises part
\* way through the cleaning and keeps the assignments made until then.
MergeDatasets ==
    /\ pc = "idle"
    /\ UNCHANGED call
    /\ geo_calls' = 0
    /\ UNCHANGED pc
    /\ NoArgs
    /\ NoLocals
    /\ IF airlines_df.columns = <<>>
       THEN /\ outcome' = "IndexError"
            /\ UNCHANGED <<frames, merge_df>>
       ELSE /\ airlines_df' = DropFirstColumn(airlines_df)
            /\ IF airports_df.columns = <<>>
               THEN /\ outcome' = "IndexError"
                    /\ UNCHANGED <<airplanes_df, airports_df, routes_df,
                                   merge_df>>
               ELSE IF DropRaises(DropFirstColumn(airports_df),
                                  {"Type", "Source"})
               THEN /\ airports_df' = DropFirstColumn(airports_df)
                    /\ outcome' = "KeyError"
                    /\ UNCHANGED <<airplanes_df, routes_df, merge_df>>
               ELSE /\ airports_df' = Drop(DropFirstColumn(airports_df),
                                           {"Type", "Source"})
                    /\ routes_df' = DropFirstColumn(routes_df)
                    /\ airplanes_df' = DropFirstColumn(airplanes_df)
                    /\ merge_df' = MergedTable(airports_df', routes_df')
                    /\ outcome' = "merged"

\* Faulty variant of WithDistance: the distances are appended as one more
\* column each time, next to those of an earlier annotation.
WithDistanceAppended(df) ==
    [columns |-> Append(df.columns, "distance"),
     rows |-> [i \in 1..Len(df.rows) |->
                 ("distance" :> distance_geo(df.rows[i]["latitude_source"],
                                             df.rows[i]["longitude_source"],
                                             df.rows[i]["latitude_destination"],
                                             df.rows[i]["longitude_destination"]))
                 @@ df.rows[i]]]

\* Faulty variant of WithDistance: a new distance column is put in front of
\* the other columns.
WithDistanceInFront(df) ==
    [columns |-> IF "distance" \in ColSet(df) THEN df.columns
                 ELSE <<"distance">> \o df.columns,
     rows |-> [i \in 1..Len(df.rows) |->
                 ("distance" :> distance_geo(df.rows[i]["latitude_source"],
                                             df.rows[i]["longitude_source"],
                                             df.rows[i]["latitude_destination"],
                                             df.rows[i]["longitude_destination"]))
                 @@ df.rows[i]]]

\* Faulty variant of WithDistance: the rows with distance 0 are left out.
WithDistancePositiveOnly(df) ==
    [columns |-> IF "distance" \in ColSet(df) THEN df.columns
                 ELSE Append(df.columns, "distance"),
     rows |-> SelectSeq(
                 [i \in 1..Len(df.rows) |->
                    ("distance" :> distance_geo(df.rows[i]["latitude_source"],
                                                df.rows[i]["longitude_source"],
                                                df.rows[i]["latitude_destination"],
                                                df.rows[i]["longitude_destination"]))
                    @@ df.rows[i]],
                 LAMBDA r : r["distance"] > 0)]

\* merge_df["distance"] = merge_df.apply(lambda row: distance_geo(...), axis=1)
WithDistance(df) ==
    [columns |-> IF "distance" \in ColSet(df) THEN df.columns
                 ELSE Append(df.columns, "distance"),
     rows |-> [i \in 1..Len(df.rows) |->
                 ("distance" :> distance_geo(df.rows[i]["latitude_source"],
                                             df.rows[i]["longitude_source"],
                                             df.rows[i]["latitude_destination"],
                                             df.rows[i]["longitude_destination"]))
                 @@ df.rows[i]]]

\* The assignment raises on the frame of __init__, which has no columns.
DistanceRaises(df) == df.columns = <<>>

\* distance_analysis()
DistanceAnalysis ==
    /\ pc = "idle"
    /\ UNCHANGED call
    /\ UNCHANGED <<frames, pc>>
    /\ NoArgs
    /\ NoLocals
    /\ IF DistanceRaises(merge_df)
       THEN /\ outcome' = "ValueError"
            /\ geo_calls' = 0
            /\ UNCHANGED merge_df
       ELSE /\ merge_df' = WithDistance(merge_df)
            /\ geo_calls' = Len(merge_df.rows)
            /\ outcome' = "distance_plot"

\* Faulty variant of FilterRoutes: the internal flag is ignored.
FilterRoutesSourceOnly(df, c, intern) ==
    SelectSeq(df.rows, LAMBDA r : r["Source country"] = c)

\* Faulty variant of FilterRoutes: the country is compared with the
\* Destination country.
FilterRoutesByDestination(df, c, intern) ==
    SelectSeq(df.rows,
              LAMBDA r : /\ r["Destination country"] = c
                         /\ intern => r["Source country"] = c)

\* The rows plot_flights_by_country iterates over.
FilterRoutes(df, c, intern) ==
    SelectSeq(df.rows,
              LAMBDA r : /\ r["Source country"] = c
                         /\ intern => r["Destination country"] = c)

\* Faulty variant of StartOfLoop: the counters and the set go on from the
\* values the previous call left.
StartOfLoopKeepsCounters ==
    UNCHANGED <<total_short_haul_distance, no_double_routes, short_haul_count>>

\* total_short_haul_distance = 0; no_double_routes = set();
\* short_haul_count = 0
StartOfLoop ==
    /\ total_short_haul_distance' = 0
    /\ no_double_routes' = {}
    /\ short_haul_count' = 0

\* plot_flights_by_country(country, internal, cutoff_distance) up to the
\* classification loop.
PlotFlightsByCountry(c, intern, given) ==
    /\ pc = "idle"
    /\ UNCHANGED <<frames, call>>
    /\ country' = c
    /\ code_airport' = ""
    /\ internal' = intern
    /\ cutoff_arg' = given
    /\ cutoff_distance' = CutoffParameter(given)
    /\ IF NeedsDistance(merge_df) /\ DistanceRaises(merge_df)
       THEN /\ outcome' = "ValueError"
            /\ geo_calls' = 0
            /\ NoLocals
            /\ UNCHANGED <<merge_df, pc>>
       ELSE /\ IF NeedsDistance(merge_df)
               THEN /\ merge_df' = WithDistance(merge_df)
                    /\ geo_calls' = Len(merge_df.rows)
               ELSE /\ UNCHANGED merge_df
                    /\ geo_calls' = 0
            /\ LET found == FilterRoutes(merge_df', c, intern)
               IN  IF found = <<>>
                   THEN /\ outcome' = "No routes found"
                        /\ NoLocals
                        /\ UNCHANGED pc
                   ELSE IF intern /\ c \notin WorldNames
                   THEN /\ outcome' = "Country not found"
                        /\ NoLocals
                        /\ UNCHANGED pc
                   ELSE /\ filtered_routes' = found
                        /\ row_i' = 1
                        /\ StartOfLoop
                        /\ drawn' = <<>>
                        /\ emissions' = NoEmissions
                        /\ pc' = "loop"
                        /\ outcome' = "running"

\* Faulty variant of no_double_routes_add: the pair is not remembered.
no_double_routes_add_nothing(seen, row) == seen

\* no_double_routes.add(round_trip_airports)
no_double_routes_add(seen, row) == seen \cup {round_trip_airports(row)}

\* One iteration of "for _, row in ....iterrows()".
ClassifyRow ==
    /\ pc = "loop"
    /\ row_i <= Len(filtered_routes)
    /\ row_i' = row_i + 1
    /\ UNCHANGED <<frames, merge_df, pc, args, filtered_routes, emissions,
                   geo_calls, outcome, call>>
    /\ LET row == filtered_routes[row_i]
       IN  IF round_trip_airports(row) \notin no_double_routes
           THEN IF IsShortHaul(row["distance"], cutoff_distance)
                THEN /\ total_short_haul_distance' =
                            total_short_haul_distance + row["distance"]
                     /\ short_haul_count' = short_haul_count + 1
                     /\ no_double_routes' =
                            no_double_routes_add(no_double_routes, row)
                     /\ drawn' = Append(drawn, <<row_i, "tomato">>)
                ELSE /\ drawn' = Append(drawn, <<row_i, "midnightblue">>)
                     /\ UNCHANGED <<total_short_haul_distance,
                                    short_haul_count, no_double_routes>>
           ELSE UNCHANGED <<total_short_haul_distance, short_haul_count,
                            no_double_routes, drawn>>

\* Faulty variant of Emissions: the train emits half, not a third.
EmissionsTrainHalf(total_distance) ==
    LET total_emissions_flight == total_distance * 246
        total_emissions_train == total_emissions_flight \div 2
    IN  [computed |-> TRUE,
         total_emissions_flight |-> total_emissions_flight,
         total_emissions_train |-> total_emissions_train,
         co2_reductions |->
            DivideBy1000(total_emissions_flight - total_emissions_train)]

\* The emissions estimate of the branch for all routes of the country.
Emissions(total_distance) ==
    LET total_emissions_flight == total_distance * 246
        total_emissions_train == total_emissions_flight \div 3
    IN  [computed |-> TRUE,
         total_emissions_flight |-> total_emissions_flight,
         total_emissions_train |-> total_emissions_train,
         co2_reductions |->
            DivideBy1000(total_emissions_flight - total_emissions_train)]

\* The end of the loop: the annotation, and the emissions estimate when
\* internal is false.
FinishPlot ==
    /\ pc = "loop"
    /\ row_i > Len(filtered_routes)
    /\ pc' = "idle"
    /\ outcome' = "shown"
    /\ emissions' = IF internal THEN NoEmissions
                    ELSE Emissions(total_short_haul_distance)
    /\ UNCHANGED <<frames, merge_df, args, filtered_routes, row_i,
                   no_double_routes, short_haul_count,
                   total_short_haul_distance, drawn, geo_calls, call>>

\* Airport codes given to plot_flights_by_code_airports.
AirportCodes == {"WAW", "ZZZ"}

\* merge_df.loc[merge_df["Source airport"] == code, "Source country"]
SourceCountriesOf(df, code) ==
    LET matching == SelectSeq(df.rows, LAMBDA r : r["Source airport"] = code)
    IN  [i \in 1..Len(matching) |-> matching[i]["Source country"]]

\* The flights plot_flights_by_code_airports selects.
FlightsFrom(df, code, intern, country_of_source) ==
    SelectSeq(df.rows,
              LAMBDA r : /\ r["Source airport"] = code
                         /\ intern =>
                               /\ r["Destination country"] = country_of_source
                               /\ r["Source country"] = country_of_source)

\* plot_flights_by_code_airports(code_airport, internal).  .iloc[0] is taken
\* of the selection before anything looks whether it is empty.
PlotFlightsByCodeAirports(code, intern) ==
    /\ pc = "idle"
    /\ UNCHANGED <<frames, merge_df, pc, call>>
    /\ country' = ""
    /\ code_airport' = code
    /\ internal' = intern
    /\ cutoff_arg' = <<>>
    /\ cutoff_distance' = 500
    /\ geo_calls' = 0
    /\ NoLocals
    /\ IF "Source airport" \notin ColSet(merge_df)
       THEN outcome' = "KeyError"
       ELSE IF SourceCountriesOf(merge_df, code) = <<>>
       THEN outcome' = "IndexError"
       ELSE LET country_of_source == SourceCountriesOf(merge_df, code)[1]
                flights == FlightsFrom(merge_df, code, intern, country_of_source)
            IN  IF flights = <<>>
                THEN outcome' = "No flights found"
                ELSE IF intern /\ country_of_source \notin WorldNames
                THEN outcome' = "ValueError"
                ELSE outcome' = "flights shown"

Next ==
    \/ MergeDatasets
    \/ DistanceAnalysis
    \/ \E c \in Countries, intern \in BOOLEAN, given \in CutoffArgs :
          PlotFlightsByCountry(c, intern, given)
    \/ ClassifyRow
    \/ FinishPlot
    \/ \E code \in AirportCodes, intern \in BOOLEAN :
          PlotFlightsByCodeAirports(code, intern)

Spec == Init /\ [][Next]_vars

(***************************************************************************)
(* The instance with plot_flights_by_country called with the smallest      *)
(* cutoff that is not negative, or with none.                              *)
(***************************************************************************)
ZeroCutoffArgs == { <<>>, <<0>> }

NextZeroCutoff ==
    \/ MergeDatasets
    \/ DistanceAnalysis
    \/ \E c \in Countries, intern \in BOOLEAN, given \in ZeroCutoffArgs :
          PlotFlightsByCountry(c, intern, given)
    \/ ClassifyRow
    \/ FinishPlot

SpecZeroCutoff == Init /\ [][NextZeroCutoff]_vars

(***************************************************************************)
(* download_data() called again in the session: the four files, which are  *)
(* the ones read before, are read anew; merge_df is not touched.           *)
(***************************************************************************)
\* pd.read_csv of airports.csv and of routes.csv, whose rows are those the
\* tables of the instance were read from.
ReadAirports(df) ==
    [columns |-> AirportsColumns,
     rows |-> [i \in 1..Len(df.rows) |->
                 AirportRow(i - 1, << df.rows[i]["IATA"], df.rows[i]["Country"],
                                      df.rows[i]["Latitude"],
                                      df.rows[i]["Longitude"] >>)]]

ReadRoutes(df) ==
    [columns |-> RoutesColumns,
     rows |-> [i \in 1..Len(df.rows) |->
                 RouteRow(i - 1, << df.rows[i]["Source airport"],
                                    df.rows[i]["Destination airport"],
                                    df.rows[i]["Equipment"] >>)]]

DownloadData ==
    /\ pc = "idle"
    /\ UNCHANGED <<merge_df, pc, call>>
    /\ geo_calls' = 0
    /\ NoArgs
    /\ NoLocals
    /\ airlines_df' = [columns |-> AirlinesColumns, rows |-> <<AirlineRow>>]
    /\ airplanes_df' = [columns |-> AirplanesColumns, rows |-> <<AirplaneRow>>]
    /\ airports_df' = ReadAirports(airports_df)
    /\ routes_df' = ReadRoutes(routes_df)
    /\ outcome' = "downloaded"

NextReload == Next \/ DownloadData

SpecReload == Init /\ [][NextReload]_vars

(***************************************************************************)
(* The earlier draft of the class, src/Class_Airplane.py: its              *)
(* merge_datasets works on the tables as loaded, without cleaning, with    *)
(* two inner joins from the routes.                                        *)
(***************************************************************************)
\* pd.merge(left, right, left_on=, right_on=): how defaults to "inner", a
\* left row without a match is left out.
MergeInner(left, right, left_on, right_on) ==
    LET overlap == ColSet(left) \cap ColSet(right)
        LName(c) == IF c \in overlap THEN c \o "_x" ELSE c
        RName(c) == IF c \in overlap THEN c \o "_y" ELSE c
        JoinRow(l, r) ==
            [c \in { LName(k) : k \in ColSet(left) } \cup
                   { RName(k) : k \in ColSet(right) } |->
                IF \E k \in ColSet(left) : LName(k) = c
                THEN l[CHOOSE k \in ColSet(left) : LName(k) = c]
                ELSE r[CHOOSE k \in ColSet(right) : RName(k) = c]]
        Matches(l) == SelectSeq(right.rows, LAMBDA r : r[right_on] = l[left_on])
        RowsFor(l) == [j \in 1..Len(Matches(l)) |-> JoinRow(l, Matches(l)[j])]
    IN  [columns |-> [i \in 1..Len(left.columns) |-> LName(left.columns[i])] \o
                     [i \in 1..Len(right.columns) |-> RName(right.columns[i])],
         rows |-> Flatten([i \in 1..Len(left.rows) |-> RowsFor(left.rows[i])])]

\* The table the draft's merge_datasets builds.
DraftMergedTable(airports, routes) ==
    LET merge_df_1 ==
            Rename(MergeInner(routes, airports, "Source airport", "IATA"),
                   ("Country" :> "Source country") @@
                   ("Latitude" :> "latitude_source") @@
                   ("Longitude" :> "longitude_source"))
        merge_df_2 ==
            Rename(MergeInner(merge_df_1,
                              Project(airports,
                                      <<"IATA", "Country", "Latitude", "Longitude">>),
                              "Source airport", "IATA"),
                   ("Country" :> "Destination country") @@
                   ("Latitude" :> "latitude_destination") @@
                   ("Longitude" :> "longitude_destination"))
    IN  DropNa(merge_df_2, {"Source country", "Destination country"})

\* merge_datasets() of the draft.
DraftMergeDatasets ==
    /\ pc = "idle"
    /\ UNCHANGED <<frames, pc, call>>
    /\ geo_calls' = 0
    /\ NoArgs
    /\ NoLocals
    /\ merge_df' = DraftMergedTable(airports_df, routes_df)
    /\ outcome' = "merged"

NextDraft == DraftMergeDatasets

SpecDraft == Init /\ [][NextDraft]_vars

\* The loaded files and merge_datasets alone.
NextMerge == MergeDatasets

SpecMerge == Init /\ [][NextMerge]_vars

(***************************************************************************)
(* merge_datasets on files whose airports may have no IATA code, as the    *)
(* airports of airports.csv that have none: read_csv gives them a missing  *)
(* IATA.                                                                   *)
(***************************************************************************)
AirportPoolWithNull == AirportPool \cup { <<NaN, "Poland", 51, 20>> }

InitNullIATA ==
    /\ airlines_df = [columns |-> AirlinesColumns, rows |-> <<AirlineRow>>]
    /\ airplanes_df = [columns |-> AirplanesColumns, rows |-> <<AirplaneRow>>]
    /\ \E s \in SeqsUpTo(AirportPoolWithNull, MaxAirports) :
          airports_df = [columns |-> AirportsColumns,
                         rows |-> [i \in 1..Len(s) |-> AirportRow(i - 1, s[i])]]
    /\ \E s \in SeqsUpTo(RoutePool, MaxRoutes) :
          routes_df = [columns |-> RoutesColumns,
                       rows |-> [i \in 1..Len(s) |-> RouteRow(i - 1, s[i])]]
    /\ merge_df = EmptyFrame
    /\ pc = "idle"
    /\ country = ""
    /\ code_airport = ""
    /\ internal = FALSE
    /\ cutoff_arg = <<>>
    /\ cutoff_distance = 500
    /\ filtered_routes = <<>>
    /\ row_i = 1
    /\ no_double_routes = {}
    /\ short_haul_count = 0
    /\ total_short_haul_distance = 0
    /\ drawn = <<>>
    /\ emissions = NoEmissions
    /\ geo_calls = 0
    /\ outcome = "none"
    /\ call = NoCall

SpecMergeNullIATA == InitNullIATA /\ [][NextMerge]_vars

(***************************************************************************)
(* The classification loop on its own: plot_flights_by_country has entered *)
(* its loop for the routes of Poland on a merged table given as a fixture, *)
(* whose rows carry any of the distances LoopDistances.                    *)
(***************************************************************************)
MaxLoopRows == 3

LoopColumns ==
    <<"Source country", "Source airport", "Destination airport",
      "Destination country", "distance">>
LoopPairs == { <<"KRK", "WAW">>, <<"WAW", "KRK">>, <<"KRK", "PRG">> }
LoopDistances == {0, 400, 500, 600}
LoopCutoffArgs == { <<>>, <<0>>, <<400>> }

LoopRow(pair, distance) ==
    ("Source country" :> "Poland") @@ ("Source airport" :> pair[1]) @@
    ("Destination airport" :> pair[2]) @@
    ("Destination country" :>
        IF pair[2] = "PRG" THEN "Czech Republic" ELSE "Poland") @@
    ("distance" :> distance)

InitLoop ==
    /\ airlines_df = EmptyFrame
    /\ airplanes_df = EmptyFrame
    /\ airports_df = EmptyFrame
    /\ routes_df = EmptyFrame
    /\ \E s \in SeqsUpTo(LoopPairs \X LoopDistances, MaxLoopRows) :
          /\ merge_df = [columns |-> LoopColumns,
                         rows |-> [i \in 1..Len(s) |-> LoopRow(s[i][1], s[i][2])]]
          /\ filtered_routes = merge_df.rows
    /\ filtered_routes # <<>>
    /\ pc = "loop"
    /\ country = "Poland"
    /\ code_airport = ""
    /\ internal = FALSE
    /\ cutoff_arg \in LoopCutoffArgs
    /\ cutoff_distance = CutoffParameter(cutoff_arg)
    /\ row_i = 1
    /\ no_double_routes = {}
    /\ short_haul_count = 0
    /\ total_short_haul_distance = 0
    /\ drawn = <<>>
    /\ emissions = NoEmissions
    /\ geo_calls = 0
    /\ outcome = "running"
    /\ call = NoCall

NextLoop == ClassifyRow \/ FinishPlot

SpecLoop == InitLoop /\ [][NextLoop]_vars

(***************************************************************************)
(* The pure functions on their own: one direct call of distance_geo, as    *)
(* the unit tests make it, or one evaluation of the emissions estimate     *)
(* for a total short-haul distance, on an instance fresh from __init__.    *)
(***************************************************************************)
MaxTotalDistance == 1200

Latitudes == {-95, -6, 0, 50, 52, 90, NaNNum}
Longitudes == {-170, 0, 19, 21, 145, 190, NaNNum}

InitPure ==
    /\ airlines_df = EmptyFrame
    /\ airplanes_df = EmptyFrame
    /\ airports_df = EmptyFrame
    /\ routes_df = EmptyFrame
    /\ merge_df = EmptyFrame
    /\ pc = "idle"
    /\ country = ""
    /\ code_airport = ""
    /\ internal = FALSE
    /\ cutoff_arg = <<>>
    /\ cutoff_distance = 500
    /\ filtered_routes = <<>>
    /\ row_i = 1
    /\ no_double_routes = {}
    /\ short_haul_count = 0
    /\ total_short_haul_distance = 0
    /\ drawn = <<>>
    /\ emissions = NoEmissions
    /\ geo_calls = 0
    /\ outcome = "none"
    /\ \/ \E lat1 \in Latitudes, lon1 \in Longitudes,
            lat2 \in Latitudes, lon2 \in Longitudes :
             call = [fn |-> "distance_geo", done |-> FALSE,
                     args |-> <<lat1, lon1, lat2, lon2>>]
       \/ \E d \in 0..MaxTotalDistance :
             call = [fn |-> "emissions", done |-> FALSE, args |-> <<d>>]

CallDistanceGeo ==
    /\ call.fn = "distance_geo"
    /\ ~call.done
    /\ call' = [fn |-> "distance_geo", done |-> TRUE, args |-> call.args,
                result |-> distance_geo_call(call.args[1], call.args[2],
                                             call.args[3], call.args[4])]
    /\ UNCHANGED <<frames, merge_df, pc, args, locals, geo_calls, outcome>>

CallEmissions ==
    /\ call.fn = "emissions"
    /\ ~call.done
    /\ call' = [fn |-> "emissions", done |-> TRUE, args |-> call.args,
                result |-> Emissions(call.args[1])]
    /\ UNCHANGED <<frames, merge_df, pc, args, locals, geo_calls, outcome>>

NextPure == CallDistanceGeo \/ CallEmissions

SpecPure == InitPure /\ [][NextPure]_vars

(***************************************************************************)
(* Properties.                                                             *)
(***************************************************************************)
MergeRows == 1..Len(merge_df.rows)
RouteRows == 1..Len(routes_df.rows)
Merged == merge_df.columns # <<>>

\* The code is the IATA of no row of the airports table.
UnknownCode(code) ==
    \A i \in 1..Len(airports_df.rows) : airports_df.rows[i]["IATA"] # code

CitesUnknownCode(r) ==
    \/ UnknownCode(routes_df.rows[r]["Source airport"])
    \/ UnknownCode(routes_df.rows[r]["Destination airport"])

HasRowInMerge(r) ==
    \E m \in MergeRows :
        /\ merge_df.rows[m]["Source airport"] = routes_df.rows[r]["Source airport"]
        /\ merge_df.rows[m]["Destination airport"] =
              routes_df.rows[r]["Destination airport"]

\* C1: after merge_datasets every row of the merged table has a Source
\* country and a Destination country that are not missing, and a route of
\* the routes table whose source or destination code is the IATA of no
\* airport has no row in the merged table.
C1_MergeFilter ==
    Merged =>
        /\ \A m \in MergeRows :
              /\ merge_df.rows[m]["Source country"] # NaN
              /\ merge_df.rows[m]["Destination country"] # NaN
        /\ \A r \in RouteRows : CitesUnknownCode(r) => ~HasRowInMerge(r)

\* A merged table with rows, built from routes of which one cites a code
\* that is the IATA of no airport.
C1_Witness ==
    /\ Merged
    /\ merge_df.rows # <<>>
    /\ \E r \in RouteRows : CitesUnknownCode(r)

(***************************************************************************)
(* The classification loop.  drawn lists the rows the loop has processed   *)
(* (bucketed and plotted), each with the colour of its bucket.             *)
(***************************************************************************)
FilteredRows == 1..Len(filtered_routes)
ShortHaulDrawn == { k \in DOMAIN drawn : drawn[k][2] = "tomato" }
Distance(i) == filtered_routes[i]["distance"]
Source(i) == filtered_routes[i]["Source airport"]
Destination(i) == filtered_routes[i]["Destination airport"]

\* The same two airports, in whichever direction.
SamePair(i, j) ==
    {Source(i), Destination(i)} = {Source(j), Destination(j)}

RECURSIVE SumOfDrawn(_)
SumOfDrawn(K) ==
    IF K = {} THEN 0
    ELSE LET k == CHOOSE x \in K : TRUE
         IN  Distance(drawn[k][1]) + SumOfDrawn(K \ {k})

\* C2: when the filtered routes hold A->B and B->A, both within the cutoff,
\* the two rows have the same key tuple(sorted([source, destination])), the
\* finished loop has counted exactly one row of that pair as short-haul, and
\* the totals are those of the rows counted: the pair adds 1 to
\* short_haul_count and its distance once to total_short_haul_distance.
C2_RoundTripCountedOnce ==
    outcome = "shown" =>
        /\ \A i, j \in FilteredRows :
              ( /\ Source(i) = Destination(j)
                /\ Destination(i) = Source(j)
                /\ Source(i) # Destination(i)
                /\ Distance(i) <= cutoff_distance
                /\ Distance(j) <= cutoff_distance )
              => /\ round_trip_airports(filtered_routes[i]) =
                       round_trip_airports(filtered_routes[j])
                 /\ Cardinality({ k \in ShortHaulDrawn :
                                    SamePair(drawn[k][1], i) }) = 1
        /\ short_haul_count = Cardinality(ShortHaulDrawn)
        /\ total_short_haul_distance = SumOfDrawn(ShortHaulDrawn)

\* A finished loop over A->B and B->A, both short-haul, that counted one.
C2_Witness ==
    /\ outcome = "shown"
    /\ short_haul_count = 1
    /\ total_short_haul_distance > 0
    /\ \E i, j \in FilteredRows :
          /\ Source(i) = Destination(j)
          /\ Destination(i) = Source(j)
          /\ Source(i) # Destination(i)
          /\ Distance(i) <= cutoff_distance
          /\ Distance(j) <= cutoff_distance

\* C3: of the rows with the same unordered pair of airports only the first
\* in iteration order is processed, whichever its bucket: no row that comes
\* after a row of the same pair is bucketed and drawn.
C3_OnlyFirstOfPairProcessed ==
    \A k \in DOMAIN drawn :
        \A j \in FilteredRows : j < drawn[k][1] => ~SamePair(j, drawn[k][1])

\* C4: a processed row is bucketed short-haul exactly when its distance is
\* at most the cutoff, a distance equal to the cutoff included; only such a
\* row changes short_haul_count and total_short_haul_distance; and the
\* cutoff is 500 when the caller gives none.
C4_Bucketing ==
    [][ /\ (pc = "loop" /\ row_i' = row_i + 1) =>
            LET processed == Len(drawn') = Len(drawn) + 1
                short == Distance(row_i) <= cutoff_distance
            IN  /\ processed =>
                      drawn'[Len(drawn')] =
                          << row_i, IF short THEN "tomato" ELSE "midnightblue" >>
                /\ ~processed => drawn' = drawn
                /\ IF processed /\ short
                   THEN /\ short_haul_count' = short_haul_count + 1
                        /\ total_short_haul_distance' =
                              total_short_haul_distance + Distance(row_i)
                   ELSE /\ short_haul_count' = short_haul_count
                        /\ total_short_haul_distance' = total_short_haul_distance
        /\ (pc = "idle" /\ country' \in Countries) =>
            cutoff_distance' = IF cutoff_arg' = <<>> THEN 500 ELSE cutoff_arg'[1]
      ]_vars

\* A row whose distance equals the cutoff the caller gave, in the short-haul
\* bucket.
C4_Witness ==
    /\ cutoff_arg # <<>>
    /\ \E k \in ShortHaulDrawn : Distance(drawn[k][1]) = cutoff_distance
    /\ short_haul_count = 1

(***************************************************************************)
(* Properties of the pure functions, under SpecPure.                       *)
(***************************************************************************)
GeoCalled == call.fn = "distance_geo" /\ call.done
EmissionsCalled == call.fn = "emissions" /\ call.done

\* C5: from the total short-haul distance d the estimate is
\* flightEmissions = d * 246, trainEmissions = flightEmissions / 3 and
\* reduction = (flightEmissions - trainEmissions) / 1000; for d = 1000 they
\* are 246000, 82000 and 164.
C5_EmissionsArithmetic ==
    EmissionsCalled =>
        LET d == call.args[1]
            e == call.result
        IN  /\ e.total_emissions_flight = d * 246
            /\ 3 * e.total_emissions_train = e.total_emissions_flight
            /\ e.co2_reductions.thousandths \in 0..999
            /\ 1000 * e.co2_reductions.whole + e.co2_reductions.thousandths =
                  e.total_emissions_flight - e.total_emissions_train
            /\ d = 1000 =>
                  /\ e.total_emissions_flight = 246000
                  /\ e.total_emissions_train = 82000
                  /\ e.co2_reductions = [whole |-> 164, thousandths |-> 0]

\* The estimate evaluated for d = 1000.
C5_Witness == EmissionsCalled /\ call.args[1] = 1000

\* C6: on any input on which geodesic fails, distance_geo returns 0 and
\* raises nothing.
C6_FailureNotPropagated ==
    ( /\ GeoCalled
      /\ geodesic(call.args[1], call.args[2], call.args[3], call.args[4]).raised )
    => /\ ~call.result.raised
       /\ call.result.geoval = 0

\* distance_geo called with a latitude outside [-90, 90], and with a
\* coordinate that is no number.
C6_Witness ==
    /\ GeoCalled
    /\ call.args[1] = -95
    /\ call.args[4] = NaNNum

\* C7: for a valid coordinate pair (x, y), distance_geo(x, y, x, y) is
\* exactly 0.
C7_SameLocationIsZero ==
    ( /\ GeoCalled
      /\ call.args[1] = call.args[3]
      /\ call.args[2] = call.args[4]
      /\ call.args[1] \in -90..90
      /\ call.args[2] # NaNNum )
    => /\ ~call.result.raised
       /\ call.result.geoval = 0

\* distance_geo called as test_distance_geo_same_location calls it.
C7_Witness == GeoCalled /\ call.args = <<-6, 145, -6, 145>>

(***************************************************************************)
(* Properties of the distance annotation and of the empty result.          *)
(***************************************************************************)
HasDistance == "distance" \in ColSet(merge_df)

\* A step that is a call of distance_analysis which returns its plot.
DistanceAnalysisStep == pc = "idle" /\ outcome' = "distance_plot"

\* A step that is a call of plot_flights_by_country, up to its loop.
PlotCallStep == pc = "idle" /\ country' \in Countries

\* C8: annotating a merged table that is annotated already, by
\* distance_analysis or by the annotation step of plot_flights_by_country,
\* leaves the table as it is: same columns, same rows in the same order,
\* same distances.
C8_AnnotateTwice ==
    [][ (HasDistance /\ (DistanceAnalysisStep \/ PlotCallStep))
        => merge_df' = merge_df ]_vars

\* An annotated table with rows, as distance_analysis leaves it: the step
\* of distance_analysis from this state leads back to it.
C8_Witness ==
    /\ outcome = "distance_plot"
    /\ HasDistance
    /\ merge_df.rows # <<>>
    /\ \E m \in MergeRows : merge_df.rows[m]["distance"] > 0

\* C9: when the merged table has a distance column the distance annotation
\* does nothing: distance_geo is evaluated for no row and the distances
\* stay as they are.  (As stated of both distance_analysis and the
\* annotation step of plot_flights_by_country.)
C9_AnnotationIsNoOp ==
    [][ (HasDistance /\ (DistanceAnalysisStep \/ PlotCallStep))
        => (geo_calls' = 0 /\ merge_df' = merge_df) ]_vars

\* C9, amended: when the merged table has a distance column, the annotation
\* step of plot_flights_by_country is skipped: distance_geo is evaluated for
\* no row and the table stays as it is; distance_analysis evaluates
\* distance_geo again for every row and stores the results.
C9_PlotSkipsAnnotation ==
    [][ HasDistance =>
          /\ PlotCallStep => (geo_calls' = 0 /\ merge_df' = merge_df)
          /\ DistanceAnalysisStep =>
                /\ geo_calls' = Len(merge_df.rows)
                /\ Len(merge_df'.rows) = Len(merge_df.rows)
                /\ \A m \in MergeRows :
                      merge_df'.rows[m]["distance"] =
                         distance_geo(merge_df.rows[m]["latitude_source"],
                                      merge_df.rows[m]["longitude_source"],
                                      merge_df.rows[m]["latitude_destination"],
                                      merge_df.rows[m]["longitude_destination"])
      ]_vars

\* plot_flights_by_country called on a table with rows that had its
\* distance column before the call.
C9_Witness ==
    /\ country \in Countries
    /\ HasDistance
    /\ merge_df.rows # <<>>
    /\ geo_calls = 0

\* C10: when no row of the merged table matches the country (and, with
\* internal, the destination country), plot_flights_by_country ends with
\* "No routes found", raises nothing and classifies nothing: no row is
\* bucketed, and there is no count, no total distance and no emissions
\* estimate.
C10_NoRoutesFound ==
    [][ ( /\ PlotCallStep
          /\ Merged
          /\ \A m \in 1..Len(merge_df'.rows) :
                ~ ( /\ merge_df'.rows[m]["Source country"] = country'
                    /\ internal' =>
                          merge_df'.rows[m]["Destination country"] = country' ) )
        => /\ outcome' = "No routes found"
           /\ pc' = "idle"
           /\ drawn' = <<>>
           /\ no_double_routes' = {}
           /\ short_haul_count' = 0
           /\ total_short_haul_distance' = 0
           /\ emissions' = NoEmissions
      ]_vars

\* A call for the internal routes of a country that has routes abroad only.
C10_Witness ==
    /\ outcome = "No routes found"
    /\ internal
    /\ \E m \in MergeRows : merge_df.rows[m]["Source country"] = country

(***************************************************************************)
(* Properties of plot_flights_by_code_airports.                            *)
(***************************************************************************)
\* A step that is a call of plot_flights_by_code_airports.
CodeCallStep == pc = "idle" /\ code_airport' \in AirportCodes

\* C11: when no row of the merged table has the given code as its Source
\* airport, plot_flights_by_code_airports ends with its message that no
\* flights were found and raises nothing.
C11_UnknownCodeReported ==
    [][ ( /\ CodeCallStep
          /\ Merged
          /\ \A m \in MergeRows :
                merge_df.rows[m]["Source airport"] # code_airport' )
        => outcome' = "No flights found"
      ]_vars

(***************************************************************************)
(* Frame of plot_flights_by_country on the merged table.                   *)
(***************************************************************************)
\* C12: plot_flights_by_country never changes the merged table: merge_df
\* has the same columns, rows and values after the call as before it, in
\* every state in which it is called, also when the table has no distance
\* column yet.  (As stated.)
C12_PlotNeverMutates ==
    [][ (PlotCallStep \/ pc = "loop") => merge_df' = merge_df ]_vars

\* C12, amended: plot_flights_by_country leaves merge_df as it is when the
\* table has a distance column already; on a merged table without one the
\* call runs the distance annotation first, which adds the distance column
\* after the other columns and changes no other column, no row and no
\* order; the classification loop never changes merge_df.
C12_PlotAddsOnlyDistance ==
    [][ /\ PlotCallStep =>
            IF HasDistance \/ ~Merged
            THEN merge_df' = merge_df
            ELSE /\ merge_df'.columns = Append(merge_df.columns, "distance")
                 /\ Len(merge_df'.rows) = Len(merge_df.rows)
                 /\ \A m \in MergeRows :
                       \A c \in ColSet(merge_df) :
                          merge_df'.rows[m][c] = merge_df.rows[m][c]
        /\ pc = "loop" => merge_df' = merge_df
      ]_vars

\* A call of plot_flights_by_country that annotated the rows of a merged
\* table which had no distance column, now in its loop.
C12_Witness ==
    /\ pc = "loop"
    /\ country \in Countries
    /\ HasDistance
    /\ geo_calls > 0

(***************************************************************************)
(* Reproducibility of plot_flights_by_country.                             *)
(***************************************************************************)
NoneCounted ==
    [short_haul_count |-> 0, total_short_haul_distance |-> 0,
     no_double_routes |-> {}]

\* The counters a pass over rows ends with when it starts from acc.
RECURSIVE CountedFrom(_, _, _)
CountedFrom(rows, cutoff, acc) ==
    IF rows = <<>> THEN acc
    ELSE LET row == Head(rows)
             key == round_trip_airports(row)
         IN  CountedFrom(Tail(rows), cutoff,
                 IF key \notin acc.no_double_routes /\ row["distance"] <= cutoff
                 THEN [short_haul_count |-> acc.short_haul_count + 1,
                       total_short_haul_distance |->
                           acc.total_short_haul_distance + row["distance"],
                       no_double_routes |-> acc.no_double_routes \cup {key}]
                 ELSE acc)

\* C13: what a call of plot_flights_by_country ends with is a function of
\* the merged table, the country, the internal flag and the cutoff alone:
\* the counters and the dedup set are empty when the loop starts, whatever
\* an earlier call left, and the finished call has the short_haul_count,
\* total_short_haul_distance and CO2 reduction of a pass that starts from
\* nothing, so two calls with the same inputs end with the same values.
C13_Reproducible ==
    /\ (pc = "loop" /\ row_i = 1) =>
          /\ short_haul_count = 0
          /\ total_short_haul_distance = 0
          /\ no_double_routes = {}
    /\ outcome = "shown" =>
          LET r == CountedFrom(FilterRoutes(merge_df, country, internal),
                               cutoff_distance, NoneCounted)
          IN  /\ short_haul_count = r.short_haul_count
              /\ total_short_haul_distance = r.total_short_haul_distance
              /\ emissions = IF internal THEN NoEmissions
                             ELSE Emissions(r.total_short_haul_distance)

\* A finished call that counted a short-haul route and estimated the CO2
\* reduction; a call made from this state starts from these counters.
C13_Witness ==
    /\ outcome = "shown"
    /\ short_haul_count >= 1
    /\ total_short_haul_distance > 0
    /\ emissions.computed

(***************************************************************************)
(* Multiplicity of the rows of the merged table, under SpecMerge.          *)
(***************************************************************************)
AirportRows == 1..Len(airports_df.rows)

\* No two rows of the airports table have the same IATA.
UniqueIATA ==
    \A i, j \in AirportRows :
        i # j => airports_df.rows[i]["IATA"] # airports_df.rows[j]["IATA"]

\* (source airport, destination airport, equipment) of a row.
RouteKey(row) ==
    << row["Source airport"], row["Destination airport"], row["Equipment"] >>

MergedWithKey(key) == { m \in MergeRows : RouteKey(merge_df.rows[m]) = key }
RoutesWithKey(key) == { r \in RouteRows : RouteKey(routes_df.rows[r]) = key }

\* C14: when no two airports have the same IATA, the merged table holds at
\* most one row for each row of the routes table: for every route there are
\* no more merged rows with its source, destination and equipment than the
\* routes table has rows with them.
C14_NoFanOut ==
    (Merged /\ UniqueIATA) =>
        \A r \in RouteRows :
            Cardinality(MergedWithKey(RouteKey(routes_df.rows[r]))) <=
               Cardinality(RoutesWithKey(RouteKey(routes_df.rows[r])))

\* Two airports with different IATA and two routes between them, both in
\* the merged table.
C14_Witness ==
    /\ Merged
    /\ UniqueIATA
    /\ Len(airports_df.rows) = 2
    /\ Len(routes_df.rows) = 2
    /\ Len(merge_df.rows) = 2

\* C15: no two rows of the merged table have the same source airport,
\* destination airport and equipment.
C15_OneRowPerCombination ==
    Merged =>
        \A m1, m2 \in MergeRows :
            m1 # m2 => RouteKey(merge_df.rows[m1]) # RouteKey(merge_df.rows[m2])

(***************************************************************************)
(* The CO2 estimate of plot_flights_by_country.                            *)
(***************************************************************************)
\* C16: a finished call of plot_flights_by_country has a CO2 reduction
\* estimate made from its total short-haul distance, with internal false
\* and with internal true.
C16_EstimateForBothFlags ==
    outcome = "shown" =>
        /\ emissions.computed
        /\ emissions = Emissions(total_short_haul_distance)

(***************************************************************************)
(* The scenario of the two Polish airports.                                *)
(***************************************************************************)
\* Airports KRK (Poland, 50, 19) and WAW (Poland, 52, 21); routes KRK->WAW
\* and WAW->KRK.
KrakowWarsaw ==
    /\ Len(airports_df.rows) = 2
    /\ { airports_df.rows[i]["IATA"] : i \in AirportRows } = {"KRK", "WAW"}
    /\ Len(routes_df.rows) = 2
    /\ { << routes_df.rows[r]["Source airport"],
            routes_df.rows[r]["Destination airport"] >> : r \in RouteRows } =
          { <<"KRK", "WAW">>, <<"WAW", "KRK">> }

\* C17: for airports KRK and WAW, both in Poland, and routes KRK->WAW and
\* WAW->KRK, whose distance is below the cutoff of 500, the merged table has
\* exactly 2 rows, and the finished classification of Poland with internal
\* true has short_haul_count = 1 and a total_short_haul_distance that is the
\* distance of the one route counted.
C17_KrakowWarsaw ==
    (KrakowWarsaw /\ Merged) =>
        /\ Len(merge_df.rows) = 2
        /\ (outcome = "shown" /\ internal /\ country = "Poland") =>
              /\ short_haul_count = 1
              /\ total_short_haul_distance = distance_geo(50, 19, 52, 21)
              /\ total_short_haul_distance = Distance(drawn[1][1])
              /\ 0 < total_short_haul_distance
              /\ total_short_haul_distance < 500
              /\ Len(drawn) = 1

\* The finished classification of the scenario with internal true and the
\* default cutoff.
C17_Witness ==
    /\ KrakowWarsaw
    /\ Len(merge_df.rows) = 2
    /\ outcome = "shown"
    /\ internal
    /\ country = "Poland"
    /\ cutoff_distance = 500
    /\ short_haul_count = 1

(***************************************************************************)
(* The cleaning at the start of merge_datasets, under SpecMerge, where     *)
(* every step is a call of merge_datasets.                                 *)
(***************************************************************************)
\* The four tables are as download_data loaded them.
AsLoaded ==
    /\ airlines_df.columns = AirlinesColumns
    /\ airports_df.columns = AirportsColumns
    /\ routes_df.columns = RoutesColumns
    /\ airplanes_df.columns = AirplanesColumns

\* after is before without the columns removed: the other columns in their
\* order, as many rows, in their order (a row's index is its position), each
\* with the values it had.
Without(before, after, removed) ==
    /\ after.columns = SelectSeq(before.columns, LAMBDA c : c \notin removed)
    /\ Len(after.rows) = Len(before.rows)
    /\ \A i \in 1..Len(before.rows) :
          /\ DOMAIN after.rows[i] = (DOMAIN before.rows[i]) \ removed
          /\ \A c \in DOMAIN after.rows[i] :
                after.rows[i][c] = before.rows[i][c]

\* C18: merge_datasets on the tables as loaded removes the first column of
\* airlines, airports, routes and airplanes, removes Type and Source from
\* airports as well, and removes no other column; every row stays, in its
\* place, numbered 0..n-1, with its other values.
C18_Cleaning ==
    [][ AsLoaded =>
          /\ outcome' = "merged"
          /\ Without(airlines_df, airlines_df', {airlines_df.columns[1]})
          /\ Without(airports_df, airports_df',
                     {airports_df.columns[1], "Type", "Source"})
          /\ Without(routes_df, routes_df', {routes_df.columns[1]})
          /\ Without(airplanes_df, airplanes_df', {airplanes_df.columns[1]})
          /\ airports_df'.columns =
                <<"Name", "Country", "IATA", "Latitude", "Longitude",
                  "Altitude", "Timezone", "DST", "Tz database time zone">>
      ]_vars

\* Cleaned tables with rows: two airports and two routes.
C18_Witness ==
    /\ outcome = "merged"
    /\ Len(airports_df.rows) = 2
    /\ Len(routes_df.rows) = 2
    /\ "index" \notin ColSet(airports_df)
    /\ "index" \notin ColSet(routes_df)

\* C19: merge_datasets leaves the tables of the instance as they were
\* loaded: after it airlines_df, airports_df, routes_df and airplanes_df
\* still have all their columns.
C19_LoadedTablesUntouched ==
    Merged => AsLoaded

\* C20: for a row of the merged table whose Source country is its
\* Destination country, distance_geo of the row's source and destination
\* coordinates is 0.
C20_SameCountryIsZero ==
    \A m \in MergeRows :
        merge_df.rows[m]["Source country"] = merge_df.rows[m]["Destination country"]
        => distance_geo(merge_df.rows[m]["latitude_source"],
                        merge_df.rows[m]["longitude_source"],
                        merge_df.rows[m]["latitude_destination"],
                        merge_df.rows[m]["longitude_destination"]) = 0

(***************************************************************************)
(* Symmetry of distance_geo, under SpecPure.                               *)
(***************************************************************************)
\* C21: distance_geo(a, b, c, d) = distance_geo(c, d, a, b) for all inputs,
\* those on which geodesic fails and 0 is returned included.
C21_Symmetric ==
    GeoCalled =>
        /\ ~call.result.raised
        /\ call.result.geoval =
              distance_geo(call.args[3], call.args[4], call.args[1], call.args[2])

\* distance_geo called on two different valid points, and on a pair of
\* which only the first point is invalid.
C21_Witness ==
    /\ GeoCalled
    /\ \/ call.args = <<50, 19, 52, 21>> /\ call.result.geoval > 0
       \/ call.args = <<-95, 19, 52, 21>> /\ call.result.geoval = 0

(***************************************************************************)
(* Frame of the distance annotation.                                       *)
(***************************************************************************)
\* A step that annotates the merged table: a call of distance_analysis, or
\* a call of plot_flights_by_country on a merged table without distances.
AnnotationStep ==
    \/ DistanceAnalysisStep
    \/ PlotCallStep /\ Merged /\ ~HasDistance

\* C22: the distance annotation changes nothing but the distance column:
\* the merged table has as many rows after it, in the same order, every
\* other column has its values, no other column comes or goes, and the
\* distance of row i is distance_geo of the source and destination
\* coordinates of row i.
C22_AnnotationFrame ==
    [][ AnnotationStep =>
          /\ ColSet(merge_df') = ColSet(merge_df) \cup {"distance"}
          /\ SelectSeq(merge_df'.columns, LAMBDA c : c # "distance") =
                SelectSeq(merge_df.columns, LAMBDA c : c # "distance")
          /\ Len(merge_df'.rows) = Len(merge_df.rows)
          /\ \A m \in MergeRows :
                /\ \A c \in ColSet(merge_df) \ {"distance"} :
                      merge_df'.rows[m][c] = merge_df.rows[m][c]
                /\ merge_df'.rows[m]["distance"] =
                      distance_geo(merge_df.rows[m]["latitude_source"],
                                   merge_df.rows[m]["longitude_source"],
                                   merge_df.rows[m]["latitude_destination"],
                                   merge_df.rows[m]["longitude_destination"])
      ]_vars

\* A table of two rows, both annotated by the last call.
C22_Witness ==
    /\ HasDistance
    /\ geo_calls = 2
    /\ Len(merge_df.rows) = 2
    /\ \A m \in MergeRows : merge_df.rows[m]["distance"] >= 0

(***************************************************************************)
(* The endpoints of a merged row.                                          *)
(***************************************************************************)
\* The airports table has an airport with this IATA, country, latitude and
\* longitude.
IsAirport(code, ctry, lat, lon) ==
    \E a \in AirportRows :
        /\ airports_df.rows[a]["IATA"] = code
        /\ airports_df.rows[a]["Country"] = ctry
        /\ airports_df.rows[a]["Latitude"] = lat
        /\ airports_df.rows[a]["Longitude"] = lon

\* C23: in every merged row the Destination country, latitude_destination
\* and longitude_destination are those of the airport whose IATA is the
\* row's Destination airport, and the Source country, latitude_source and
\* longitude_source are those of the airport whose IATA is the row's Source
\* airport.
C23_EndpointsResolved ==
    Merged =>
        \A m \in MergeRows :
            /\ IsAirport(merge_df.rows[m]["Destination airport"],
                         merge_df.rows[m]["Destination country"],
                         merge_df.rows[m]["latitude_destination"],
                         merge_df.rows[m]["longitude_destination"])
            /\ IsAirport(merge_df.rows[m]["Source airport"],
                         merge_df.rows[m]["Source country"],
                         merge_df.rows[m]["latitude_source"],
                         merge_df.rows[m]["longitude_source"])

(***************************************************************************)
(* The rows plot_flights_by_country classifies.                            *)
(***************************************************************************)
\* The merged rows of the country given, of those with both ends in it when
\* internal is true.
RowsOfCountry ==
    { m \in MergeRows :
        /\ merge_df.rows[m]["Source country"] = country
        /\ internal => merge_df.rows[m]["Destination country"] = country }

\* The i-th of them in the order of the merged table.
NthRowOfCountry(i) ==
    CHOOSE m \in RowsOfCountry :
        Cardinality({ k \in RowsOfCountry : k < m }) = i - 1

\* C24: the rows a call of plot_flights_by_country iterates over are
\* exactly the merged rows whose Source country is the country given, and
\* whose Destination country is it too when internal is true, in the order
\* they have in the merged table; the rows it buckets are among them.
C24_RowsClassified ==
    /\ outcome \in {"running", "shown"} =>
          /\ Len(filtered_routes) = Cardinality(RowsOfCountry)
          /\ \A i \in FilteredRows :
                filtered_routes[i] = merge_df.rows[NthRowOfCountry(i)]
          /\ \A k \in DOMAIN drawn : drawn[k][1] \in FilteredRows
          /\ \A k1, k2 \in DOMAIN drawn : k1 < k2 => drawn[k1][1] < drawn[k2][1]
    /\ outcome = "No routes found" => RowsOfCountry = {}

\* A finished call for the routes of a country, on a merged table of two
\* rows of which one starts in another country.
C24_Witness ==
    /\ outcome = "shown"
    /\ Len(merge_df.rows) = 2
    /\ Len(filtered_routes) = 1
    /\ Len(drawn) = 1
    /\ \E m \in MergeRows : merge_df.rows[m]["Source country"] # country

(***************************************************************************)
(* The counters of the classification loop, under SpecLoop.                *)
(***************************************************************************)
\* The unordered pairs of airports that have a row within the cutoff.
ShortHaulPairs ==
    { {Source(i), Destination(i)} :
         i \in { j \in FilteredRows : Distance(j) <= cutoff_distance } }

\* C25: whatever the distances of the rows and their order, the finished
\* loop has a short_haul_count that is the number of distinct unordered
\* pairs of airports with at least one row of distance <= cutoff, which
\* does not depend on the order of the rows; and at every step of the loop
\* short_haul_count is the size of no_double_routes.
C25_CountIsNumberOfPairs ==
    /\ short_haul_count = Cardinality(no_double_routes)
    /\ outcome = "shown" => short_haul_count = Cardinality(ShortHaulPairs)

\* A finished loop over a pair whose first row is beyond the cutoff and
\* whose later row, in the other direction, is within it.
C25_Witness ==
    /\ outcome = "shown"
    /\ short_haul_count = 1
    /\ \E i, j \in FilteredRows :
          /\ i < j
          /\ Source(i) = Destination(j)
          /\ Destination(i) = Source(j)
          /\ Distance(i) > cutoff_distance
          /\ Distance(j) <= cutoff_distance

\* C26: at every step of the loop, with distances that are not negative,
\* 0 <= total_short_haul_distance <= short_haul_count * cutoff_distance,
\* and total_short_haul_distance is the sum of the distances of exactly the
\* rows that incremented short_haul_count.
C26_TotalBounded ==
    (\A i \in FilteredRows : Distance(i) >= 0) =>
        /\ 0 <= total_short_haul_distance
        /\ total_short_haul_distance <= short_haul_count * cutoff_distance
        /\ short_haul_count = Cardinality(ShortHaulDrawn)
        /\ total_short_haul_distance = SumOfDrawn(ShortHaulDrawn)
        /\ \A k \in ShortHaulDrawn : Distance(drawn[k][1]) <= cutoff_distance

\* The loop after two rows of different pairs were counted, one of them at
\* the cutoff, and a row beyond the cutoff was bucketed long-haul.
C26_Witness ==
    /\ short_haul_count = 2
    /\ total_short_haul_distance = 900
    /\ cutoff_distance = 500
    /\ Len(drawn) = 3

(***************************************************************************)
(* The distances the loop reads, under SpecReload.                         *)
(***************************************************************************)
\* C27: after any sequence of calls of merge_datasets, distance_analysis
\* and plot_flights_by_country (and of download_data, without which no
\* later merge_datasets succeeds), the classification loop runs on a table
\* with a distance column only, and whenever the merged table has the
\* column the distance of each row is distance_geo of the coordinates the
\* row has now: a table made by a new merge has no distances of the table
\* it replaces.
C27_DistancesCurrent ==
    /\ pc = "loop" =>
          /\ HasDistance
          /\ \A i \in FilteredRows : "distance" \in DOMAIN filtered_routes[i]
    /\ HasDistance =>
          \A m \in MergeRows :
              merge_df.rows[m]["distance"] =
                 distance_geo(merge_df.rows[m]["latitude_source"],
                              merge_df.rows[m]["longitude_source"],
                              merge_df.rows[m]["latitude_destination"],
                              merge_df.rows[m]["longitude_destination"])
    /\ outcome = "merged" => ~HasDistance

\* The data read anew while the instance holds an annotated merged table
\* with rows: the merge_datasets that follows replaces that table.
C27_Witness ==
    /\ AsLoaded
    /\ outcome = "downloaded"
    /\ HasDistance
    /\ merge_df.rows # <<>>

(***************************************************************************)
(* merge_datasets called again, under SpecMerge.                           *)
(***************************************************************************)
\* C28: a merge_datasets that follows a merge_datasets with no download_data
\* between them stops with an error at the removal of Type and Source, and
\* what it assigned before the error stays: airlines_df and airports_df are
\* without their first column of before the call, all else of them as it
\* was, and routes_df, airplanes_df and merge_df are those of before the
\* call.
C28_SecondMergeAborts ==
    [][ outcome = "merged" =>
          /\ outcome' = "KeyError"
          /\ Without(airlines_df, airlines_df', {airlines_df.columns[1]})
          /\ Without(airports_df, airports_df', {airports_df.columns[1]})
          /\ Len(airlines_df'.columns) = Len(airlines_df.columns) - 1
          /\ Len(airports_df'.columns) = Len(airports_df.columns) - 1
          /\ routes_df' = routes_df
          /\ airplanes_df' = airplanes_df
          /\ merge_df' = merge_df ]_vars

\* The second call has stopped on an instance whose merged table has two
\* rows: airlines_df has no column left, airports_df starts at Country.
C28_Witness ==
    /\ outcome = "KeyError"
    /\ Len(merge_df.rows) = 2
    /\ airlines_df.columns = <<>>
    /\ airports_df.columns =
          <<"Country", "IATA", "Latitude", "Longitude", "Altitude",
            "Timezone", "DST", "Tz database time zone">>
    /\ routes_df.columns = Tail(RoutesColumns)
    /\ airplanes_df.columns = Tail(AirplanesColumns)

(***************************************************************************)
(* Routes whose distance is the 0 of a failed distance_geo, under          *)
(* SpecZeroCutoff.                                                         *)
(***************************************************************************)
\* geodesic raises on the coordinates of the row.
Fallback(row) ==
    geodesic(row["latitude_source"], row["longitude_source"],
             row["latitude_destination"], row["longitude_destination"]).raised

\* C29: a route on whose coordinates distance_geo fails has the distance 0,
\* and with a cutoff of 0 or more the loop takes it for a short-haul route:
\* when its pair of airports was not counted before, short_haul_count grows
\* by one, total_short_haul_distance stays as it is, the route is drawn as
\* short-haul and its pair is recorded; when the pair was counted before,
\* nothing is counted.  This is what the loop does with any row of distance
\* 0.
C29_FallbackIsShortHaul ==
    [][ (pc = "loop" /\ row_i' = row_i + 1 /\ cutoff_distance >= 0
           /\ (Fallback(filtered_routes[row_i]) \/ Distance(row_i) = 0)) =>
          /\ Distance(row_i) = 0
          /\ IF round_trip_airports(filtered_routes[row_i]) \in no_double_routes
             THEN /\ short_haul_count' = short_haul_count
                  /\ total_short_haul_distance' = total_short_haul_distance
                  /\ drawn' = drawn
             ELSE /\ short_haul_count' = short_haul_count + 1
                  /\ total_short_haul_distance' = total_short_haul_distance
                  /\ drawn' = Append(drawn, <<row_i, "tomato">>)
                  /\ round_trip_airports(filtered_routes[row_i])
                        \in no_double_routes' ]_vars

\* With the cutoff 0, the same failing route twice among the routes of the
\* country: counted once, with nothing added to the total.
C29_Witness ==
    /\ pc = "loop"
    /\ cutoff_distance = 0
    /\ row_i = 3
    /\ Fallback(filtered_routes[1])
    /\ Fallback(filtered_routes[2])
    /\ SamePair(1, 2)
    /\ short_haul_count = 1
    /\ total_short_haul_distance = 0

(***************************************************************************)
(* Airports without routes, under SpecMergeNullIATA.                       *)
(***************************************************************************)
\* Every airport has an IATA.
NonNullIATA == \A i \in AirportRows : airports_df.rows[i]["IATA"] # NaN

\* The airport is the source of no route.
NoRouteFrom(i) ==
    \A r \in RouteRows :
        routes_df.rows[r]["Source airport"] # airports_df.rows[i]["IATA"]

\* C30: when every airport has an IATA and no two have the same one, an
\* airport that is the source of no route has no row in the merged table,
\* the merged table has at most as many rows as the routes table, and in
\* every row of it IATA is the Source airport of the row.
C30_AirportsWithoutRoutes ==
    (Merged /\ UniqueIATA /\ NonNullIATA) =>
        /\ \A i \in AirportRows :
              NoRouteFrom(i) =>
                 \A m \in MergeRows :
                     merge_df.rows[m]["IATA"] # airports_df.rows[i]["IATA"]
        /\ Len(merge_df.rows) <= Len(routes_df.rows)
        /\ \A m \in MergeRows :
              merge_df.rows[m]["IATA"] = merge_df.rows[m]["Source airport"]

\* Two airports with different IATA, one of them the source of the one
\* route and the other of none: the merged table has the one row.
C30_Witness ==
    /\ outcome = "merged"
    /\ UniqueIATA
    /\ NonNullIATA
    /\ Len(airports_df.rows) = 2
    /\ Len(routes_df.rows) = 1
    /\ \E i \in AirportRows : NoRouteFrom(i)
    /\ Len(merge_df.rows) = 1

\* An airport without IATA next to an airport that is the source of no
\* route: the missing Destination airport of the latter is matched with the
\* missing IATA, and the airport has a row in the merged table.
C30_RowOfAirportWithoutRoute ==
    /\ outcome = "merged"
    /\ ~NonNullIATA
    /\ \E i \in AirportRows :
          /\ NoRouteFrom(i)
          /\ airports_df.rows[i]["IATA"] # NaN
          /\ \E m \in MergeRows :
                /\ merge_df.rows[m]["IATA"] = airports_df.rows[i]["IATA"]
                /\ merge_df.rows[m]["Source airport"] = NaN

====
